---- MODULE Spec2Model ----
(***************************************************************************)
(* ktfile: path normalisation (Utils.splitPath), the segment-addressed     *)
(* handle (IFile / FileSync / FileAsync) and the recursive operations      *)
(* built on an injected filesystem backend.                                *)
(*                                                                         *)
(* A string is a sequence of one-character strings, a path segment is a    *)
(* string, a handle's `split` is a sequence of segments.  A value that is  *)
(* `T | null` in the source is a sequence of length 0 (null) or 1.         *)
(***************************************************************************)
EXTENDS Integers, Sequences, FiniteSets, TLC

VARIABLES
    cwd,    \* Utils.cwd: the working directory, normalised once at load
    sep,    \* FileSync.sep / FileAsync.sep
    h,      \* split of the handle the path operations act on
    last,   \* record of the last operation: its inputs, result and backend calls
    fs,     \* the backend's tree: absolute path -> "dir" or a file's content
    env,    \* the backend object: members present, paths it refuses to remove
    deleteQueue,    \* Utils.deleteQueue: the entries [file, recursive] in insertion order
    listeners,      \* the process's listeners of 'exit', 'SIGINT' and 'SIGTERM', in order
    proc            \* the process: whether it runs, the backend calls its cleanups made

vars == <<cwd, sep, h, last, fs, env, deleteQueue, listeners, proc>>

\* ---------------------------------------------------------------- bounds
MaxTokens == 4      \* tokens in a raw path string drawn at construction
MaxDepth == 4       \* longest split the path operations grow a handle to
MaxCalls == 4       \* nested copyTo calls followed before the model gives up
MaxChunks == 2      \* chunks of a response body a download reads
MaxQueued == 2      \* entries the deletion queue grows to
MaxOthers == 1      \* listeners other code registers on the process
MaxCleanups == 1    \* direct calls of cleanup() while the process runs
MaxMutations == 2   \* entries other code creates or deletes while a walk runs

\* ---------------------------------------------------------------- strings
Null == <<>>
Some(x) == <<x>>

SepChars == {"/", "\\"}
Letters == {"a", "b"}

Dot == <<".">>
DotDot == <<".", ".">>
Empty == <<>>

RECURSIVE Join(_, _)
\* Array.prototype.join on an array of strings
Join(parts, s) ==
    IF Len(parts) = 0 THEN <<>>
    ELSE IF Len(parts) = 1 THEN parts[1]
    ELSE parts[1] \o s \o Join(Tail(parts), s)

RECURSIVE SplitFrom(_, _, _, _)
SplitFrom(str, seps, i, cur) ==
    IF i > Len(str) THEN <<cur>>
    ELSE IF str[i] \in seps THEN <<cur>> \o SplitFrom(str, seps, i + 1, <<>>)
    ELSE SplitFrom(str, seps, i + 1, Append(cur, str[i]))

\* String.prototype.split on a one-character separator class
Split(str, seps) == SplitFrom(str, seps, 1, <<>>)

\* ---------------------------------------------------------------- splitPath
\* /^[a-zA-Z]:\\/.test(path)
IsDrive(path) ==
    /\ Len(path) >= 3
    /\ path[1] \in Letters
    /\ path[2] = ":"
    /\ path[3] = "\\"

Slice(str, from) == SubSeq(str, from + 1, Len(str))

RECURSIVE FoldParts(_, _)
FoldParts(cd, parts) ==
    IF Len(parts) = 0 THEN cd
    ELSE LET part == Head(parts) IN
         IF part = DotDot
         THEN FoldParts(IF Len(cd) = 0 THEN cd ELSE SubSeq(cd, 1, Len(cd) - 1), Tail(parts))
         ELSE IF part # Dot /\ part # Empty
         THEN FoldParts(Append(cd, part), Tail(parts))
         ELSE FoldParts(cd, Tail(parts))

RECURSIVE FoldPartsKeepDotDot(_, _)
FoldPartsKeepDotDot(cd, parts) ==
    IF Len(parts) = 0 THEN cd
    ELSE LET part == Head(parts) IN
         IF part = DotDot
         THEN FoldPartsKeepDotDot(IF Len(cd) = 0 THEN <<part>> ELSE SubSeq(cd, 1, Len(cd) - 1), Tail(parts))
         ELSE IF part # Dot /\ part # Empty
         THEN FoldPartsKeepDotDot(Append(cd, part), Tail(parts))
         ELSE FoldPartsKeepDotDot(cd, Tail(parts))

RECURSIVE FoldPartsKeepEmpty(_, _)
FoldPartsKeepEmpty(cd, parts) ==
    IF Len(parts) = 0 THEN cd
    ELSE LET part == Head(parts) IN
         IF part = DotDot
         THEN FoldPartsKeepEmpty(IF Len(cd) = 0 THEN cd ELSE SubSeq(cd, 1, Len(cd) - 1), Tail(parts))
         ELSE IF part # Dot
         THEN FoldPartsKeepEmpty(Append(cd, part), Tail(parts))
         ELSE FoldPartsKeepEmpty(cd, Tail(parts))

\* splitPath with a '..' met on an empty result kept as a segment
splitPathKeepDotDot(path, cd) ==
    IF Len(path) > 0 /\ path[1] \in SepChars
    THEN FoldPartsKeepDotDot(<<>>, Split(Slice(path, 1), SepChars))
    ELSE IF IsDrive(path)
    THEN FoldPartsKeepDotDot(<<SubSeq(path, 1, 2)>>, Split(Slice(path, 3), SepChars))
    ELSE FoldPartsKeepDotDot(cd, Split(path, SepChars))

\* splitPath without the test that skips empty tokens
splitPathKeepEmpty(path, cd) ==
    IF Len(path) > 0 /\ path[1] \in SepChars
    THEN FoldPartsKeepEmpty(<<>>, Split(Slice(path, 1), SepChars))
    ELSE IF IsDrive(path)
    THEN FoldPartsKeepEmpty(<<SubSeq(path, 1, 2)>>, Split(Slice(path, 3), SepChars))
    ELSE FoldPartsKeepEmpty(cd, Split(path, SepChars))

splitPath(path, cd) ==
    IF Len(path) > 0 /\ path[1] \in SepChars
    THEN FoldParts(<<>>, Split(Slice(path, 1), SepChars))
    ELSE IF IsDrive(path)
    THEN FoldParts(<<SubSeq(path, 1, 2)>>, Split(Slice(path, 3), SepChars))
    ELSE FoldParts(cd, Split(path, SepChars))

\* ---------------------------------------------------------------- IFile
\* new FileSync(pt) / new FileAsync(pt) with a string argument
IFileFromString(pt) == splitPath(pt, cwd)

\* new FileSync(pt) / new FileAsync(pt) with a string[] argument
IFileFromSplit(pt) == pt

fullPath(split) ==
    IF Len(split) = 0 THEN <<sep>>
    ELSE Join(split, <<sep>>)

\* get name
name(split) ==
    LET parts == Split(fullPath(split), {sep}) IN parts[Len(parts)]

\* get parent
parent(split) ==
    IF Len(split) = 0 THEN Null
    ELSE Some(IFileFromSplit(SubSeq(split, 1, Len(split) - 1)))

\* to(...paths)
to(split, paths) ==
    IFileFromString(fullPath(split) \o <<"/">> \o Join(paths, <<"/">>))

RECURSIVE containsLoop(_, _, _)
containsLoop(this, path, i) ==
    IF i > Len(this) THEN TRUE
    ELSE IF this[i] # path[i] THEN FALSE
    ELSE containsLoop(this, path, i + 1)

\* contains with the length test letting an equal-length path through
containsNoLengthTest(this, path) ==
    IF Len(path) < Len(this) THEN FALSE
    ELSE containsLoop(this, path, 1)

\* FileSync.contains
contains(this, path) ==
    IF Len(path) <= Len(this) THEN FALSE
    ELSE containsLoop(this, path, 1)

\* FileAsync.contains
containsAsync(this, path) ==
    IF Len(path) <= Len(this) THEN FALSE
    ELSE containsLoop(this, path, 1)

\* get async / get sync
async(split) == IFileFromSplit(split)

\* the handle listFiles builds for one name the backend listed
listFilesEntry(split, file) ==
    IFileFromString(fullPath(split) \o <<"/">> \o file)

\* ---------------------------------------------------------------- inputs
A == <<"a">>
B == <<"b">>
W == <<"w">>

\* tokens a raw path string is assembled from
Tokens == {Empty, Dot, DotDot, A, B, <<"a", ":">>}

\* raw path strings: up to MaxTokens tokens joined by one of the separators
RawStrings ==
    UNION {{Join(ts, <<s>>) : ts \in [1..n -> Tokens], s \in SepChars} : n \in 1..MaxTokens}

\* process.cwd() and the separator of the platform it comes from
ProcessCwds ==
    { [sep |-> "/", dir |-> <<"/">>],
      [sep |-> "/", dir |-> <<"/", "b">>],
      [sep |-> "\\", dir |-> <<"a", ":", "\\", "b">>] }

\* arguments of to(...paths)
ToArgs == { <<A>>, <<B>>, <<DotDot>>, <<Dot>>, <<A, B>>, <<Empty>> }

\* names a backend lists
Names == {A, B}

\* raw strings of the second handle of a comparison
OtherRaws ==
    { <<"/", "a">>, <<"/", "a", "/", "b">>, <<"/", "b", "/", "a">>,
      <<"a">>, <<"a", "/", "b">>, <<"/">> }

NoFs == <<>>
NoEnv == [members |-> {}, amembers |-> {}, failing |-> {}]

\* ---------------------------------------------------------------- path operations
\* a process nothing was queued in
Events == {"exit", "SIGINT", "SIGTERM"}
NoListeners == [e \in Events |-> <<>>]
NoProc == [status |-> "running", tr |-> <<>>, attached |-> FALSE, cleanups |-> 0]
NothingQueued == deleteQueue = <<>> /\ listeners = NoListeners /\ proc = NoProc
ExitVars == <<deleteQueue, listeners, proc>>

PathInit ==
    \E p \in ProcessCwds, raw \in RawStrings :
        /\ cwd = splitPath(p.dir, <<>>)
        /\ sep = p.sep
        /\ h = splitPath(raw, cwd)
        /\ last = [op |-> "new", this |-> <<>>, arg |-> raw, out |-> h]
        /\ fs = NoFs
        /\ env = NoEnv
        /\ NothingQueued

PathFrame == UNCHANGED <<cwd, sep, fs, env, ExitVars>>

PathTo ==
    \E paths \in ToArgs :
        /\ Len(h) < MaxDepth
        /\ h' = to(h, paths)
        /\ last' = [op |-> "to", this |-> h, arg |-> paths, out |-> h']
        /\ PathFrame

PathParent ==
    /\ parent(h) # Null
    /\ h' = parent(h)[1]
    /\ last' = [op |-> "parent", this |-> h, arg |-> <<>>, out |-> h']
    /\ PathFrame

PathListEntry ==
    \E file \in Names :
        /\ Len(h) < MaxDepth
        /\ h' = listFilesEntry(h, file)
        /\ last' = [op |-> "listFiles", this |-> h, arg |-> file, out |-> h']
        /\ PathFrame

PathAsync ==
    /\ last.op # "async"
    /\ h' = async(h)
    /\ last' = [op |-> "async", this |-> h, arg |-> <<>>, out |-> h']
    /\ PathFrame

\* the handle's fullPath given back to the constructor
PathRenormalize ==
    /\ last' = [op |-> "fullPath", this |-> h, arg |-> fullPath(h),
                out |-> IFileFromString(fullPath(h))]
    /\ UNCHANGED h
    /\ PathFrame

Others == {IFileFromString(r) : r \in OtherRaws} \cup {to(h, p) : p \in ToArgs}

PathContains ==
    \E other \in Others :
        /\ last' = [op |-> "contains", this |-> h, arg |-> other, out |-> contains(h, other)]
        /\ UNCHANGED h
        /\ PathFrame

PathContainsAsync ==
    \E other \in Others :
        /\ last' = [op |-> "containsAsync", this |-> h, arg |-> other,
                    out |-> containsAsync(h, other)]
        /\ UNCHANGED h
        /\ PathFrame

PathNext ==
    \/ PathTo
    \/ PathParent
    \/ PathListEntry
    \/ PathAsync
    \/ PathRenormalize
    \/ PathContains
    \/ PathContainsAsync

PathSpec == PathInit /\ [][PathNext]_vars

\* ---------------------------------------------------------------- path claims
\* a name with no separator that is neither empty nor '.' nor '..'
PlainName(n) ==
    /\ Len(n) > 0
    /\ n # Dot
    /\ n # DotDot
    /\ \A i \in 1..Len(n) : n[i] \notin SepChars

Canonical(split) ==
    \A i \in 1..Len(split) :
        /\ split[i] # Empty
        /\ split[i] # Dot
        /\ split[i] # DotDot

IsStrictPrefix(a, b) ==
    /\ Len(b) > Len(a)
    /\ SubSeq(b, 1, Len(a)) = a

\* C1: for a handle h and a plain name n, the segments of h.to(n) are the
\* segments of h followed by n, h.to(n).parent has the segments of h, and
\* h.contains(h.to(n)) is true.
C1_ToIsImmediateChild ==
    (last.op = "to" /\ Len(last.arg) = 1 /\ PlainName(last.arg[1])) =>
        /\ last.out = Append(last.this, last.arg[1])
        /\ parent(last.out) = Some(last.this)
        /\ contains(last.this, last.out)

\* C2: rendering a handle's canonical segments with fullPath and normalising
\* that string again against the default base yields the same segments.
C2_NormalizationIdempotent ==
    last.op = "fullPath" => last.out = last.this

\* C3: the working directory, every handle built from a string and every
\* handle derived by parent, to, listFiles, sync or async holds no empty
\* segment, no '.' segment and no '..' segment.
C3_SegmentsCanonical ==
    /\ Canonical(cwd)
    /\ Canonical(h)
    /\ last.op \in {"new", "to", "parent", "listFiles", "async", "fullPath"} => Canonical(last.out)

C3_Witness ==
    /\ last.op = "new"
    /\ last.arg = <<".", "/", "/", ".", ".", "/", "a">>
    /\ Len(cwd) > 0
    /\ h = Append(SubSeq(cwd, 1, Len(cwd) - 1), A)

PlainTokens == {A, B, <<"a", ":">>}

\* the separator, k '..' tokens and the plain tokens ts, joined by the separator
RootedDotDots(k, ts, s) ==
    <<s>> \o Join([i \in 1..k |-> DotDot] \o ts, <<s>>)

\* C4: a rooted path of k >= 0 '..' tokens followed by plain tokens t1..tn
\* normalises to exactly [t1..tn], whatever the base.
C4_DotDotAtRootIgnored ==
    (last.op = "new" /\ Len(last.arg) > 0 /\ last.arg[1] \in SepChars) =>
        \A k \in 0..(MaxTokens - 1), n \in 0..(MaxTokens - 1) :
            \A ts \in [1..n -> PlainTokens] :
                last.arg = RootedDotDots(k, ts, last.arg[1]) => last.out = ts

C4_Witness ==
    /\ last.op = "new"
    /\ last.arg = <<"/", ".", ".", "/", ".", ".", "/", "a">>
    /\ Len(cwd) > 0
    /\ last.out = <<A>>

\* C5: contains is true exactly when the other split is strictly longer and
\* this split is a positional prefix of it, in FileSync and in FileAsync;
\* it is irreflexive, asymmetric and transitive.
C5_ContainsIsStrictPrefix ==
    /\ ~contains(h, h)
    /\ ~containsAsync(h, h)
    /\ last.op = "contains" =>
          /\ last.out <=> IsStrictPrefix(last.this, last.arg)
          /\ last.out => ~contains(last.arg, last.this)
          /\ last.out => \A y \in Others : contains(last.arg, y) => contains(last.this, y)
    /\ last.op = "containsAsync" =>
          /\ last.out <=> IsStrictPrefix(last.this, last.arg)
          /\ last.out => ~containsAsync(last.arg, last.this)
          /\ last.out => \A y \in Others :
                containsAsync(last.arg, y) => containsAsync(last.this, y)

C5_Witness ==
    /\ last.op = "containsAsync"
    /\ last.this = <<A>>
    /\ last.arg = <<A, B>>
    /\ last.out = TRUE

\* ---------------------------------------------------------------- backend
\* The backend object (ISyncFS / IAsyncFS) is injected; it is modelled as a
\* POSIX tree.  A backend state st is [fs, tr, ovf]: the tree, the calls made
\* so far (member, path string, whether it returned) and whether the model
\* cut a recursion short.  A backend call yields [st, ok, val].

DirEntry == [dir |-> TRUE, data |-> <<>>]
FileEntry(data) == [dir |-> FALSE, data |-> data]

\* the entry a path string names: relative strings resolve against the
\* process working directory
BackendPath(p) ==
    FoldParts(IF Len(p) > 0 /\ p[1] = "/" THEN <<>> ELSE cwd, Split(p, {"/"}))

Front(q) == SubSeq(q, 1, Len(q) - 1)
IsDir(tree, q) == q \in DOMAIN tree /\ tree[q].dir
IsFileAt(tree, q) == q \in DOMAIN tree /\ ~tree[q].dir
ParentIsDir(tree, q) == Len(q) > 0 /\ IsDir(tree, Front(q))
Under(tree, q) == {x \in DOMAIN tree : Len(x) >= Len(q) /\ SubSeq(x, 1, Len(q)) = q}
Remove(tree, gone) == [x \in DOMAIN tree \ gone |-> tree[x]]
Put(tree, q, e) == [x \in DOMAIN tree \cup {q} |-> IF x = q THEN e ELSE tree[x]]

LogTo(st, m, p, dst, ok) ==
    [st EXCEPT !.tr = Append(@, [m |-> m, p |-> p, to |-> dst, ok |-> ok])]
Log(st, m, p, ok) == LogTo(st, m, p, <<>>, ok)

C == <<"c">>
R == <<"r">>
S == <<"s">>
T == <<"t">>

\* the order in which the backend lists names
NameOrder == <<A, B, C, R, S, T, W>>

existsSync(st, p) ==
    [st |-> Log(st, "exists", p, TRUE), ok |-> TRUE, val |-> BackendPath(p) \in DOMAIN st.fs]

statSync(st, p) ==
    LET q == BackendPath(p)
        ok == q \in DOMAIN st.fs
    IN [st |-> Log(st, "stat", p, ok), ok |-> ok, val |-> IF ok THEN st.fs[q] ELSE DirEntry]

readdirSync(st, p) ==
    LET q == BackendPath(p)
        ok == IsDir(st.fs, q) /\ q \notin st.denied
    IN [st |-> Log(st, "readdir", p, ok), ok |-> ok,
        val |-> IF ok THEN SelectSeq(NameOrder, LAMBDA n : Append(q, n) \in DOMAIN st.fs) ELSE <<>>]

unlinkSync(st, p) ==
    LET q == BackendPath(p)
        ok == IsFileAt(st.fs, q) /\ q \notin env.failing
    IN [st |-> Log(IF ok THEN [st EXCEPT !.fs = Remove(@, {q})] ELSE st, "unlink", p, ok),
        ok |-> ok, val |-> <<>>]

\* rmSync(path, {recursive: true, force})
rmSync(st, p, force) ==
    LET q == BackendPath(p)
        ok == /\ Len(q) > 0
              /\ q \in DOMAIN st.fs \/ force
              /\ Under(st.fs, q) \cap env.failing = {}
    IN [st |-> Log(IF ok THEN [st EXCEPT !.fs = Remove(@, Under(st.fs, q))] ELSE st, "rm", p, ok),
        ok |-> ok, val |-> <<>>]

\* rmdirSync(path, {recursive: true})
rmdirSync(st, p) ==
    LET q == BackendPath(p)
        ok == /\ Len(q) > 0
              /\ IsDir(st.fs, q)
              /\ Under(st.fs, q) \cap env.failing = {}
    IN [st |-> Log(IF ok THEN [st EXCEPT !.fs = Remove(@, Under(st.fs, q))] ELSE st, "rmdir", p, ok),
        ok |-> ok, val |-> <<>>]

RECURSIVE MkdirChain(_, _, _)
MkdirChain(tree, q, i) ==
    IF i > Len(q) THEN tree
    ELSE MkdirChain(Put(tree, SubSeq(q, 1, i), DirEntry), q, i + 1)

\* mkdirSync(path, {recursive})
mkdirSync(st, p, recursive) ==
    LET q == BackendPath(p)
        ok == IF recursive
              THEN \A i \in 0..Len(q) : ~IsFileAt(st.fs, SubSeq(q, 1, i))
              ELSE q \notin DOMAIN st.fs /\ ParentIsDir(st.fs, q)
    IN [st |-> Log(IF ok THEN [st EXCEPT !.fs = MkdirChain(@, q, 1)] ELSE st, "mkdir", p, ok),
        ok |-> ok, val |-> <<>>]

readFileSync(st, p) ==
    LET q == BackendPath(p)
        ok == IsFileAt(st.fs, q)
    IN [st |-> Log(st, "readFile", p, ok), ok |-> ok, val |-> IF ok THEN st.fs[q].data ELSE <<>>]

writeFileSync(st, p, data) ==
    LET q == BackendPath(p)
        ok == ParentIsDir(st.fs, q) /\ ~IsDir(st.fs, q)
    IN [st |-> Log(IF ok THEN [st EXCEPT !.fs = Put(@, q, FileEntry(data))] ELSE st,
                   "writeFile", p, ok),
        ok |-> ok, val |-> <<>>]

appendFileSync(st, p, data) ==
    LET q == BackendPath(p)
        ok == ParentIsDir(st.fs, q) /\ ~IsDir(st.fs, q)
        old == IF IsFileAt(st.fs, q) THEN st.fs[q].data ELSE <<>>
    IN [st |-> Log(IF ok THEN [st EXCEPT !.fs = Put(@, q, FileEntry(old \o data))] ELSE st,
                   "appendFile", p, ok),
        ok |-> ok, val |-> <<>>]

\* the tree with the subtree at from moved to onto
Moved(tree, from, onto) ==
    LET kept == Remove(tree, Under(tree, from) \cup Under(tree, onto))
        moved == {onto \o SubSeq(x, Len(from) + 1, Len(x)) : x \in Under(tree, from)}
    IN [x \in DOMAIN kept \cup moved |->
            IF x \in moved THEN tree[from \o SubSeq(x, Len(onto) + 1, Len(x))] ELSE kept[x]]

renameSync(st, oldPath, newPath) ==
    LET from == BackendPath(oldPath)
        onto == BackendPath(newPath)
        ok == /\ Len(from) > 0
              /\ from \in DOMAIN st.fs
              /\ ParentIsDir(st.fs, onto)
              /\ onto \notin Under(st.fs, from) \/ onto = from
              /\ ~(Len(onto) > Len(from) /\ SubSeq(onto, 1, Len(from)) = from)
              /\ IsFileAt(st.fs, from) => ~IsDir(st.fs, onto)
              /\ IsDir(st.fs, from) => (~IsFileAt(st.fs, onto) /\ Under(st.fs, onto) \subseteq {onto})
    IN [st |-> LogTo(IF ok /\ from # onto THEN [st EXCEPT !.fs = Moved(@, from, onto)] ELSE st,
                     "rename", oldPath, newPath, ok),
        ok |-> ok, val |-> <<>>]

\* ---------------------------------------------------------------- FileSync
\* A method yields [st, ret]: the backend state after it and what it returns.
\* pass(...) ? this : null is Some(this) / Null; ret(...) is Some(value) / Null.

\* sequencing: evaluate val once, then continue with it
Then(val, Rest(_)) == CHOOSE done \in {Rest(v) : v \in {val}} : TRUE

Truthy(opt) == opt # Null /\ opt[1] = TRUE

Returns(st, value) == [st |-> st, ret |-> value]

\* get exists: existsSync returns a boolean, so the ?? fallback is not taken
exists(st, this) ==
    Then(existsSync(st, fullPath(this)), LAMBDA r : Returns(r.st, r.val))

isDirectory(st, this) ==
    Then(statSync(st, fullPath(this)),
         LAMBDA r : Returns(r.st, IF r.ok THEN Some(r.val.dir) ELSE Null))

isFile(st, this) ==
    Then(statSync(st, fullPath(this)),
         LAMBDA r : Returns(r.st, IF r.ok THEN Some(~r.val.dir) ELSE Null))

read(st, this) ==
    Then(readFileSync(st, fullPath(this)),
         LAMBDA r : Returns(r.st, IF r.ok THEN Some(r.val) ELSE Null))

write(st, this, data) ==
    Then(writeFileSync(st, fullPath(this), data),
         LAMBDA r : Returns(r.st, IF r.ok THEN Some(this) ELSE Null))

append(st, this, data) ==
    Then(appendFileSync(st, fullPath(this), data),
         LAMBDA r : Returns(r.st, IF r.ok THEN Some(this) ELSE Null))

mkdir(st, this, recursive) ==
    Then(mkdirSync(st, fullPath(this), recursive),
         LAMBDA r : Returns(r.st, IF r.ok THEN Some(this) ELSE Null))

mkdirs(st, this) ==
    Then(mkdir(st, this, TRUE),
         LAMBDA r : Returns(r.st, IF r.ret # Null THEN Some(this) ELSE Null))

\* files.map(file => new FileSync(`${this.fullPath}/${file}`))
listFilesMap(this, files) == [i \in 1..Len(files) |-> listFilesEntry(this, files[i])]

listFiles(st, this) ==
    Then(isDirectory(st, this), LAMBDA d :
        IF ~Truthy(d.ret) THEN Returns(d.st, Null)
        ELSE Then(readdirSync(d.st, fullPath(this)), LAMBDA r :
            IF ~r.ok THEN Returns(r.st, Null)
            ELSE Returns(r.st, Some(listFilesMap(this, r.val)))))

\* for (const file of this.listFiles() || [])
OrEmpty(opt) == IF opt = Null THEN <<>> ELSE opt[1]

\* the final unlinkSync of delete
deleteSelf(st, this) ==
    Then(unlinkSync(st, fullPath(this)),
         LAMBDA r : Returns(r.st, IF r.ok THEN Some(this) ELSE Null))

RECURSIVE delete(_, _, _)
RECURSIVE deleteEach(_, _, _)

\* delete: the loop over the listed children, [st, failed]
deleteEach(st, files, failed) ==
    IF Len(files) = 0 THEN [st |-> st, failed |-> failed]
    ELSE Then(delete(st, Head(files), TRUE),
              LAMBDA d : deleteEach(d.st, Tail(files), failed \/ d.ret = Null))

delete(st, this, recursive) ==
    IF recursive
    THEN IF "rmSync" \in env.members
         THEN Then(rmSync(st, fullPath(this), recursive),
                   LAMBDA r : Returns(r.st, IF r.ok THEN Some(this) ELSE Null))
         ELSE IF "rmdirSync" \in env.members
         THEN Then(rmdirSync(st, fullPath(this)),
                   LAMBDA r : Returns(r.st, IF r.ok THEN Some(this) ELSE Null))
         ELSE Then(listFiles(st, this), LAMBDA l :
              Then(deleteEach(l.st, OrEmpty(l.ret), FALSE), LAMBDA e :
                   IF e.failed THEN Returns(e.st, Null)
                   ELSE deleteSelf(e.st, this)))
    ELSE deleteSelf(st, this)

clearReturnsWrite(st, this, recursive) ==
    IF recursive
    THEN Then(listFiles(st, this), LAMBDA l :
         IF l.ret = Null THEN Returns(l.st, Null)
         ELSE Then(deleteEach(l.st, l.ret[1], FALSE), LAMBDA e :
              Returns(e.st, IF e.failed THEN Null ELSE Some(this))))
    ELSE write(st, this, <<>>)

\* clear: the children of a directory, or (not recursive) write("") and null
clear(st, this, recursive) ==
    IF recursive
    THEN Then(listFiles(st, this), LAMBDA l :
         IF l.ret = Null THEN Returns(l.st, Null)
         ELSE Then(deleteEach(l.st, l.ret[1], FALSE), LAMBDA e :
              Returns(e.st, IF e.failed THEN Null ELSE Some(this))))
    ELSE Then(write(st, this, <<>>), LAMBDA w : Returns(w.st, Null))

RECURSIVE walk(_, _)
RECURSIVE walkEach(_, _, _)

\* walk: the loop over the listed children, [st, out]
walkEach(st, files, out) ==
    IF Len(files) = 0 THEN [st |-> st, out |-> out]
    ELSE Then(walk(st, Head(files)),
              LAMBDA w : walkEach(w.st, Tail(files), out \o w.out))

\* walk: [st, out], out the handles yielded in order
walk(st, this) ==
    Then(isDirectory(st, this), LAMBDA d :
        IF Truthy(d.ret)
        THEN Then(listFiles(d.st, this),
                  LAMBDA l : walkEach(l.st, OrEmpty(l.ret), <<this>>))
        ELSE [st |-> d.st, out |-> <<this>>])

\* the guard both renameTo and copyTo open with:
\*   if (dest.exists && !overwrite && !dest.delete(recursive)) return null
\* [st, ret]: ret is TRUE when the caller returns null
replaceDestNoDelete(st, dest, overwrite, recursive) ==
    Then(exists(st, dest), LAMBDA e : Returns(e.st, FALSE))

replaceDest(st, dest, overwrite, recursive) ==
    Then(exists(st, dest), LAMBDA e :
        IF e.ret /\ ~overwrite
        THEN Then(delete(e.st, dest, recursive), LAMBDA d : Returns(d.st, d.ret = Null))
        ELSE Returns(e.st, FALSE))

\* if (recursive) this.parent?.mkdirs()
renameToMkdirs(st, this, recursive) ==
    IF recursive /\ parent(this) # Null THEN mkdirs(st, parent(this)[1]).st ELSE st

renameToNoSelfTest(st, this, dest, overwrite, recursive) ==
    Then(replaceDest(st, dest, overwrite, recursive), LAMBDA g :
         IF g.ret THEN Returns(g.st, Null)
         ELSE Then(renameToMkdirs(g.st, this, recursive), LAMBDA m :
              Then(renameSync(m, fullPath(this), fullPath(dest)),
                   LAMBDA r : Returns(r.st, IF r.ok THEN Some(this) ELSE Null))))

renameTo(st, this, dest, overwrite, recursive) ==
    IF fullPath(this) = fullPath(dest) THEN Returns(st, Some(this))
    ELSE Then(replaceDest(st, dest, overwrite, recursive), LAMBDA g :
         IF g.ret THEN Returns(g.st, Null)
         ELSE Then(renameToMkdirs(g.st, this, recursive), LAMBDA m :
              Then(renameSync(m, fullPath(this), fullPath(dest)),
                   LAMBDA r : Returns(r.st, IF r.ok THEN Some(this) ELSE Null))))

RECURSIVE copyTo(_, _, _, _, _, _)
RECURSIVE copyEach(_, _, _, _, _, _, _)

\* copyTo: the loop over the listed children, [st, failed]
copyEach(st, files, dest, overwrite, recursive, fuel, failed) ==
    IF Len(files) = 0 THEN [st |-> st, failed |-> failed]
    ELSE Then(copyTo(st, Head(files), to(dest, <<name(Head(files))>>), overwrite, recursive, fuel),
              LAMBDA c : copyEach(c.st, Tail(files), dest, overwrite, recursive, fuel,
                                  failed \/ c.ret = Null))

\* copyTo: the file branch
copyToFile(st, this, dest) ==
    Then(read(st, this), LAMBDA data :
        IF data.ret = Null THEN Returns(data.st, Null)
        ELSE Then(write(data.st, dest, data.ret[1]),
                  LAMBDA w : Returns(w.st, IF w.ret # Null THEN Some(this) ELSE Null)))

\* copyTo: the directory branch
copyToDirectory(st, this, dest, overwrite, recursive, fuel) ==
    Then(mkdir(st, dest, recursive), LAMBDA m :
        IF m.ret = Null THEN Returns(m.st, Null)
        ELSE Then(listFiles(m.st, this), LAMBDA l :
            IF l.ret = Null THEN Returns(l.st, Null)
            ELSE Then(copyEach(l.st, l.ret[1], dest, overwrite, recursive, fuel - 1, FALSE),
                      LAMBDA c : Returns(c.st, IF c.failed THEN Null ELSE Some(this)))))

\* copyTo; fuel counts the nested calls still followed
copyTo(st, this, dest, overwrite, recursive, fuel) ==
    IF fuel = 0 THEN Returns([st EXCEPT !.ovf = TRUE], Null)
    ELSE IF fullPath(this) = fullPath(dest) THEN Returns(st, Some(this))
    ELSE Then(exists(st, this), LAMBDA e :
        IF ~e.ret THEN Returns(e.st, Null)
        ELSE Then(replaceDest(e.st, dest, overwrite, recursive), LAMBDA g :
            IF g.ret THEN Returns(g.st, Null)
            ELSE Then(isFile(g.st, this), LAMBDA f :
                IF Truthy(f.ret) THEN copyToFile(f.st, this, dest)
                ELSE copyToDirectory(f.st, this, dest, overwrite, recursive, fuel))))

\* ---------------------------------------------------------------- FileAsync
\* The awaited backend calls are the same calls on the same tree.  Where the
\* source reads a method without calling it (this.exists, this.isFile,
\* this.isDirectory) the value is the function object, which is truthy.
MethodIsTruthy == TRUE

listFilesAsyncGuesses(st, this) ==
    IF ~MethodIsTruthy THEN Returns(st, Null)
    ELSE Then(readdirSync(st, fullPath(this)), LAMBDA r :
        IF ~r.ok THEN Returns(r.st, Some(listFilesMap(this, <<A>>)))
        ELSE Returns(r.st, Some(listFilesMap(this, r.val))))

listFilesAsync(st, this) ==
    IF ~MethodIsTruthy THEN Returns(st, Null)
    ELSE Then(readdirSync(st, fullPath(this)), LAMBDA r :
        IF ~r.ok THEN Returns(r.st, Null)
        ELSE Returns(r.st, Some(listFilesMap(this, r.val))))

RECURSIVE deleteAsync(_, _, _)
RECURSIVE deleteEachAsync(_, _, _)

deleteEachAsync(st, files, failed) ==
    IF Len(files) = 0 THEN [st |-> st, failed |-> failed]
    ELSE Then(deleteAsync(st, Head(files), TRUE),
              LAMBDA d : deleteEachAsync(d.st, Tail(files), failed \/ d.ret = Null))

deleteAsync(st, this, recursive) ==
    IF recursive
    THEN IF "rmSync" \in env.amembers
         THEN Then(rmSync(st, fullPath(this), recursive),
                   LAMBDA r : Returns(r.st, IF r.ok THEN Some(this) ELSE Null))
         ELSE IF "rmdirSync" \in env.amembers
         THEN Then(rmdirSync(st, fullPath(this)),
                   LAMBDA r : Returns(r.st, IF r.ok THEN Some(this) ELSE Null))
         ELSE Then(listFilesAsync(st, this), LAMBDA l :
              Then(deleteEachAsync(l.st, OrEmpty(l.ret), FALSE), LAMBDA e :
                   IF e.failed THEN Returns(e.st, Null)
                   ELSE deleteSelf(e.st, this)))
    ELSE deleteSelf(st, this)

clearAsync(st, this, recursive) ==
    IF recursive
    THEN Then(listFilesAsync(st, this), LAMBDA l :
         IF l.ret = Null THEN Returns(l.st, Null)
         ELSE Then(deleteEachAsync(l.st, l.ret[1], FALSE), LAMBDA e :
              Returns(e.st, IF e.failed THEN Null ELSE Some(this))))
    ELSE Then(write(st, this, <<>>), LAMBDA w : Returns(w.st, Null))

RECURSIVE sizeAsync(_, _)
RECURSIVE sizeEachAsync(_, _, _)

\* size: the loop over the listed children, [st, totalSize]
sizeEachAsync(st, files, totalSize) ==
    IF Len(files) = 0 THEN [st |-> st, totalSize |-> totalSize]
    ELSE Then(sizeAsync(st, Head(files)), LAMBDA z :
              sizeEachAsync(z.st, Tail(files),
                            IF z.ret = Null THEN totalSize ELSE totalSize + z.ret[1]))

sizeAsync(st, this) ==
    Then(statSync(st, fullPath(this)), LAMBDA stat :
        IF ~stat.ok THEN Returns(stat.st, Null)
        ELSE IF ~stat.val.dir THEN Returns(stat.st, Some(Len(stat.val.data)))
        ELSE Then(listFilesAsync(stat.st, this), LAMBDA l :
             IF l.ret = Null THEN Returns(l.st, Null)
             ELSE Then(sizeEachAsync(l.st, l.ret[1], 0),
                       LAMBDA z : Returns(z.st, Some(z.totalSize)))))

\* isEmpty: ((await this.listFiles())?.length ?? 0) === 0 for a directory
isEmptyAsync(st, this) ==
    Then(isDirectory(st, this), LAMBDA isDir :
        IF isDir.ret = Null THEN Returns(isDir.st, Null)
        ELSE IF isDir.ret[1]
        THEN Then(listFilesAsync(isDir.st, this), LAMBDA l :
                  Returns(l.st, Some((IF l.ret = Null THEN 0 ELSE Len(l.ret[1])) = 0)))
        ELSE Then(sizeAsync(isDir.st, this), LAMBDA z : Returns(z.st, Some(z.ret = Some(0)))))

replaceDestAsync(st, dest, overwrite, recursive) ==
    IF MethodIsTruthy /\ ~overwrite
    THEN Then(deleteAsync(st, dest, recursive), LAMBDA d : Returns(d.st, d.ret = Null))
    ELSE Returns(st, FALSE)

renameToAsync(st, this, dest, overwrite, recursive) ==
    IF fullPath(this) = fullPath(dest) THEN Returns(st, Some(this))
    ELSE Then(replaceDestAsync(st, dest, overwrite, recursive), LAMBDA g :
         IF g.ret THEN Returns(g.st, Null)
         ELSE Then(renameToMkdirs(g.st, this, recursive), LAMBDA m :
              Then(renameSync(m, fullPath(this), fullPath(dest)),
                   LAMBDA r : Returns(r.st, IF r.ok THEN Some(this) ELSE Null))))

RECURSIVE copyToAsync(_, _, _, _, _, _)
RECURSIVE copyEachAsync(_, _, _, _, _, _, _)

copyEachAsync(st, files, dest, overwrite, recursive, fuel, failed) ==
    IF Len(files) = 0 THEN [st |-> st, failed |-> failed]
    ELSE Then(copyToAsync(st, Head(files), to(dest, <<name(Head(files))>>), overwrite,
                          recursive, fuel),
              LAMBDA c : copyEachAsync(c.st, Tail(files), dest, overwrite, recursive, fuel,
                                       failed \/ c.ret = Null))

copyToDirectoryAsync(st, this, dest, overwrite, recursive, fuel) ==
    Then(mkdir(st, dest, recursive), LAMBDA m :
        IF m.ret = Null THEN Returns(m.st, Null)
        ELSE Then(listFilesAsync(m.st, this), LAMBDA l :
            IF l.ret = Null THEN Returns(l.st, Null)
            ELSE Then(copyEachAsync(l.st, l.ret[1], dest, overwrite, recursive, fuel - 1, FALSE),
                      LAMBDA c : Returns(c.st, IF c.failed THEN Null ELSE Some(this)))))

copyToAsync(st, this, dest, overwrite, recursive, fuel) ==
    IF fuel = 0 THEN Returns([st EXCEPT !.ovf = TRUE], Null)
    ELSE IF fullPath(this) = fullPath(dest) THEN Returns(st, Some(this))
    ELSE IF ~MethodIsTruthy THEN Returns(st, Null)
    ELSE Then(replaceDestAsync(st, dest, overwrite, recursive), LAMBDA g :
        IF g.ret THEN Returns(g.st, Null)
        ELSE IF MethodIsTruthy THEN copyToFile(g.st, this, dest)
        ELSE copyToDirectoryAsync(g.st, this, dest, overwrite, recursive, fuel))

RECURSIVE walkAsync(_, _)
RECURSIVE walkEachAsync(_, _, _)

walkEachAsync(st, files, out) ==
    IF Len(files) = 0 THEN [st |-> st, out |-> out]
    ELSE Then(walkAsync(st, Head(files)),
              LAMBDA w : walkEachAsync(w.st, Tail(files), out \o w.out))

walkAsync(st, this) ==
    IF MethodIsTruthy
    THEN Then(listFilesAsync(st, this),
              LAMBDA l : walkEachAsync(l.st, OrEmpty(l.ret), <<this>>))
    ELSE [st |-> st, out |-> <<this>>]

\* ---------------------------------------------------------------- JSON and temporary files
\* a value handed to JSON.stringify: its text, or cyclic, which makes
\* JSON.stringify throw
JsonValue(text) == [cyclic |-> FALSE, text |-> text]
Cyclic == [cyclic |-> TRUE, text |-> <<>>]

\* a method result that may also be a thrown error
Throws(st) == [st |-> st, ret |-> Null, threw |-> TRUE]
NoThrow(r) == [st |-> r.st, ret |-> r.ret, threw |-> FALSE]

\* writeJSON: pass(() => this.write(JSON.stringify(data, null, 2))) ? this : null
\* pass is false only if the thunk throws; write reports by its result
writeJSON(st, this, data) ==
    IF data.cyclic THEN Returns(st, Null)
    ELSE Then(write(st, this, data.text), LAMBDA w : Returns(w.st, Some(this)))

\* FileAsync.writeJSON: await pass(() => this.write(JSON.stringify(...))) ? this : null
writeJSONAsync(st, this, data) ==
    IF data.cyclic THEN Returns(st, Null)
    ELSE Then(write(st, this, data.text), LAMBDA w : Returns(w.st, Some(this)))

\* ConfigSync.save / ConfigAsync.save: writeJSON(this.value) !== null
save(st, file, value) ==
    Then(writeJSON(st, file, value), LAMBDA w : Returns(w.st, w.ret # Null))

saveAsync(st, file, value) ==
    Then(writeJSONAsync(st, file, value), LAMBDA w : Returns(w.st, w.ret # Null))

\* the characters mkdtemp appends to its prefix
TempChars == <<"k">>

\* mkdtempSync(prefix): makes the directory prefix + random characters and
\* returns its path
mkdtempSync(st, prefix) ==
    LET made == prefix \o TempChars
        q == BackendPath(made)
        ok == q \notin DOMAIN st.fs /\ ParentIsDir(st.fs, q)
    IN [st |-> Log(IF ok THEN [st EXCEPT !.fs = Put(@, q, DirEntry)] ELSE st, "mkdtemp", prefix, ok),
        ok |-> ok, val |-> made]

TempPrefix(directory, prefix) ==
    (IF directory # Null THEN fullPath(directory[1]) ELSE <<".">>) \o <<"/">> \o prefix \o <<"-">>

\* what a Promise renders as inside a template string
ObjectPromise == <<"[", "o", "b", "j", "e", "c", "t", " ", "P", "r", "o", "m", "i", "s", "e", "]">>

\* FileSync.createTempFile
createTempFile(st, directory, prefix, suffix) ==
    IF "mkdTempSync" \notin env.members THEN Throws(st)
    ELSE IF "mkdtempSync" \notin env.members THEN Throws(st)
    ELSE Then(mkdtempSync(st, TempPrefix(directory, prefix)), LAMBDA r :
         IF ~r.ok THEN Throws(r.st)
         ELSE NoThrow(Returns(r.st, Some(IFileFromString(r.val \o suffix)))))

\* FileAsync.createTempFile: the promise mkdtemp returns is not awaited
createTempFileAsync(st, directory, prefix, suffix) ==
    IF "mkdTemp" \notin env.amembers THEN Throws(st)
    ELSE IF "mkdtemp" \notin env.amembers THEN Throws(st)
    ELSE Then(mkdtempSync(st, TempPrefix(directory, prefix)), LAMBDA r :
         NoThrow(Returns(r.st, Some(IFileFromString(ObjectPromise \o suffix)))))

\* ---------------------------------------------------------------- filesystem operations
X == <<"x">>
Y == <<"y">>

\* the strings handles are constructed from
RawR == <<"r">>
RawRA == <<"r", "/", "a">>
RawRB == <<"r", "/", "b">>
RawRC == <<"r", "/", "c">>
RawRS == <<"r", "/", "s">>
RawRSB == <<"r", "/", "s", "/", "b">>
RawT == <<"t">>
RawTA == <<"t", "/", "a">>

HandleRaws == {RawR, RawRA, RawRS, RawT, RawTA, RawRC}

\* the backend objects: node's fs / fs.promises, a backend with no recursive
\* remove, and one with rmdir alone
Backends ==
    { [members |-> {"rmSync", "rmdirSync", "mkdtempSync"}, amembers |-> {"rm", "rmdir", "mkdtemp"}],
      [members |-> {}, amembers |-> {}],
      [members |-> {"rmdirSync"}, amembers |-> {"rmdir"}] }

\* the calls that set a tree up before the operation under test
Scripts ==
    { << >>,
      << [op |-> "mkdirs", raw |-> RawR, data |-> <<>>],
         [op |-> "write", raw |-> RawRA, data |-> X],
         [op |-> "mkdirs", raw |-> RawRS, data |-> <<>>],
         [op |-> "write", raw |-> RawRSB, data |-> Y],
         [op |-> "mkdirs", raw |-> RawT, data |-> <<>>],
         [op |-> "write", raw |-> RawTA, data |-> Y] >>,
      << [op |-> "mkdirs", raw |-> RawR, data |-> <<>>],
         [op |-> "write", raw |-> RawRA, data |-> X],
         [op |-> "write", raw |-> RawRB, data |-> Y],
         [op |-> "write", raw |-> RawRC, data |-> X] >>,
      << [op |-> "mkdirs", raw |-> RawR, data |-> <<>>],
         [op |-> "mkdirs", raw |-> RawT, data |-> <<>>],
         [op |-> "write", raw |-> RawTA, data |-> <<>>] >> }

\* one call of a set-up script
BuildStep(st, c) ==
    IF c.op = "mkdirs" THEN mkdirs(st, IFileFromString(c.raw)).st
    ELSE write(st, IFileFromString(c.raw), c.data).st

RECURSIVE Build(_, _)
\* the backend state after the calls of a script
Build(st, script) ==
    IF Len(script) = 0 THEN st
    ELSE Then(BuildStep(st, Head(script)), LAMBDA next : Build(next, Tail(script)))

\* the tree before any call: the root and the working directory
BareTree == MkdirChain(<<>> :> DirEntry, cwd, 1)

Fresh(tree) == [fs |-> tree, tr |-> <<>>, ovf |-> FALSE, denied |-> {}]

\* the backend with directories it refuses to list
Denying(st, dirs) == [st EXCEPT !.denied = dirs]

Init ==
    \E c \in {<<"/">>, <<"/", "w">>}, b \in Backends, script \in Scripts, nofail \in BOOLEAN :
        /\ cwd = splitPath(c, <<>>)
        /\ sep = "/"
        /\ h = <<>>
        /\ env = [members |-> b.members, amembers |-> b.amembers,
                  failing |-> IF nofail THEN {} ELSE {BackendPath(fullPath(IFileFromString(RawRB)))}]
        /\ fs = Build(Fresh(BareTree), script).fs
        /\ last = [op |-> "init", this |-> <<>>, dest |-> <<>>, overwrite |-> FALSE,
                   recursive |-> FALSE, out |-> <<>>, tr |-> <<>>, pre |-> fs, ovf |-> FALSE,
                   threw |-> FALSE, data |-> Null]
        /\ NothingQueued

FsFrame == UNCHANGED <<cwd, sep, h, env, ExitVars>>

\* the call of a method on handles built from strings, on the tree as set
\* up: r is what the method yields
CalledWith(op, this, dest, overwrite, recursive, r, out, threw, data) ==
    /\ fs' = r.st.fs
    /\ last' = [op |-> op, this |-> this, dest |-> dest, overwrite |-> overwrite,
                recursive |-> recursive, out |-> out, tr |-> r.st.tr, pre |-> fs,
                ovf |-> r.st.ovf, threw |-> threw, data |-> data]
    /\ FsFrame

Called(op, this, dest, overwrite, recursive, r, out) ==
    CalledWith(op, this, dest, overwrite, recursive, r, out, FALSE, Null)

Delete ==
    /\ last.op = "init"
    /\ \E raw \in HandleRaws, recursive \in BOOLEAN :
        LET this == IFileFromString(raw)
        IN \E r \in {delete(Fresh(fs), this, recursive)} : Called("delete", this, <<>>, FALSE, recursive, r, r.ret)

DeleteAsync ==
    /\ last.op = "init"
    /\ \E raw \in HandleRaws, recursive \in BOOLEAN :
        LET this == IFileFromString(raw)
        IN \E r \in {deleteAsync(Fresh(fs), this, recursive)} : Called("deleteAsync", this, <<>>, FALSE, recursive, r, r.ret)

Walk ==
    /\ last.op = "init"
    /\ \E raw \in HandleRaws :
        LET this == IFileFromString(raw)
        IN \E r \in {walk(Fresh(fs), this)} : Called("walk", this, <<>>, FALSE, FALSE, r, r.out)

WalkAsync ==
    /\ last.op = "init"
    /\ \E raw \in HandleRaws :
        LET this == IFileFromString(raw)
        IN \E r \in {walkAsync(Fresh(fs), this)} : Called("walkAsync", this, <<>>, FALSE, FALSE, r, r.out)

CopyTo ==
    /\ last.op = "init"
    /\ \E raw \in HandleRaws, rawDest \in HandleRaws, overwrite \in BOOLEAN, recursive \in BOOLEAN :
        LET this == IFileFromString(raw)
            dest == IFileFromString(rawDest)
        IN \E r \in {copyTo(Fresh(fs), this, dest, overwrite, recursive, MaxCalls)} : Called("copyTo", this, dest, overwrite, recursive, r, r.ret)

CopyToAsync ==
    /\ last.op = "init"
    /\ \E raw \in HandleRaws, rawDest \in HandleRaws, overwrite \in BOOLEAN, recursive \in BOOLEAN :
        LET this == IFileFromString(raw)
            dest == IFileFromString(rawDest)
        IN \E r \in {copyToAsync(Fresh(fs), this, dest, overwrite, recursive, MaxCalls)} : Called("copyToAsync", this, dest, overwrite, recursive, r, r.ret)

RenameTo ==
    /\ last.op = "init"
    /\ \E raw \in HandleRaws, rawDest \in HandleRaws, overwrite \in BOOLEAN, recursive \in BOOLEAN :
        LET this == IFileFromString(raw)
            dest == IFileFromString(rawDest)
        IN \E r \in {renameTo(Fresh(fs), this, dest, overwrite, recursive)} : Called("renameTo", this, dest, overwrite, recursive, r, r.ret)

RenameToAsync ==
    /\ last.op = "init"
    /\ \E raw \in HandleRaws, rawDest \in HandleRaws, overwrite \in BOOLEAN, recursive \in BOOLEAN :
        LET this == IFileFromString(raw)
            dest == IFileFromString(rawDest)
        IN \E r \in {renameToAsync(Fresh(fs), this, dest, overwrite, recursive)} : Called("renameToAsync", this, dest, overwrite, recursive, r, r.ret)

JsonValues == {JsonValue(X), JsonValue(Y), Cyclic}

WriteJSON ==
    /\ last.op = "init"
    /\ \E raw \in HandleRaws, data \in JsonValues :
        LET this == IFileFromString(raw)
        IN \E r \in {writeJSON(Fresh(fs), this, data)} :
              CalledWith("writeJSON", this, <<>>, FALSE, FALSE, r, r.ret, FALSE, Some(data))

WriteJSONAsync ==
    /\ last.op = "init"
    /\ \E raw \in HandleRaws, data \in JsonValues :
        LET this == IFileFromString(raw)
        IN \E r \in {writeJSONAsync(Fresh(fs), this, data)} :
              CalledWith("writeJSONAsync", this, <<>>, FALSE, FALSE, r, r.ret, FALSE, Some(data))

Save ==
    /\ last.op = "init"
    /\ \E raw \in HandleRaws, value \in JsonValues :
        LET file == IFileFromString(raw)
        IN \E r \in {save(Fresh(fs), file, value)} :
              CalledWith("save", file, <<>>, FALSE, FALSE, r, r.ret, FALSE, Some(value))

SaveAsync ==
    /\ last.op = "init"
    /\ \E raw \in HandleRaws, value \in JsonValues :
        LET file == IFileFromString(raw)
        IN \E r \in {saveAsync(Fresh(fs), file, value)} :
              CalledWith("saveAsync", file, <<>>, FALSE, FALSE, r, r.ret, FALSE, Some(value))

TempPrefixes == {<<"p">>}
TempSuffix == <<".", "t", "m", "p">>

CreateTempFile ==
    /\ last.op = "init"
    /\ \E raw \in HandleRaws, prefix \in TempPrefixes :
        LET directory == IFileFromString(raw)
        IN \E r \in {createTempFile(Fresh(fs), Some(directory), prefix, TempSuffix)} :
              CalledWith("createTempFile", directory, <<>>, FALSE, FALSE, r, r.ret, r.threw, Null)

CreateTempFileAsync ==
    /\ last.op = "init"
    /\ \E raw \in HandleRaws, prefix \in TempPrefixes :
        LET directory == IFileFromString(raw)
        IN \E r \in {createTempFileAsync(Fresh(fs), Some(directory), prefix, TempSuffix)} :
              CalledWith("createTempFileAsync", directory, <<>>, FALSE, FALSE, r, r.ret, r.threw, Null)

Clear ==
    /\ last.op = "init"
    /\ \E raw \in HandleRaws, recursive \in BOOLEAN :
        LET this == IFileFromString(raw)
        IN \E r \in {clear(Fresh(fs), this, recursive)} : Called("clear", this, <<>>, FALSE, recursive, r, r.ret)

ClearAsync ==
    /\ last.op = "init"
    /\ \E raw \in HandleRaws, recursive \in BOOLEAN :
        LET this == IFileFromString(raw)
        IN \E r \in {clearAsync(Fresh(fs), this, recursive)} : Called("clearAsync", this, <<>>, FALSE, recursive, r, r.ret)

\* what the test writes and appends
Contents == {X, <<"x", "y">>, Y}
\* the folders and file names of the test
TestFolders == {RawR, RawT, <<"f">>}
TestNames == {A, S}

\* the test: folder.mkdirs(); file = folder.to(name); file.write(a);
\* file.append(b); then file.read() and file.isFile
TestScript ==
    /\ last.op = "init"
    /\ \E raw \in TestFolders, n \in TestNames, a \in Contents, b \in Contents :
        LET folder == IFileFromString(raw)
            file == to(folder, <<n>>)
        IN \E r \in {Then(mkdirs(Fresh(fs), folder), LAMBDA m :
                      Then(write(m.st, file, a), LAMBDA w :
                      Then(append(w.st, file, b), LAMBDA ap :
                      Then(read(ap.st, file), LAMBDA rd :
                      Then(isFile(rd.st, file), LAMBDA f :
                          Returns(f.st, [mkdirs |-> m.ret, write |-> w.ret, append |-> ap.ret,
                                         read |-> rd.ret, isFile |-> f.ret]))))))} :
              CalledWith("test", file, folder, FALSE, FALSE, r, r.ret, FALSE, Some(<<a, b>>))

\* the handles isEmpty is asked about: those above and the root
EmptyRaws == HandleRaws \cup {<<"/">>}

IsEmptyAsync ==
    /\ last.op = "init"
    /\ \E raw \in EmptyRaws, unreadable \in BOOLEAN :
        LET this == IFileFromString(raw)
            denied == IF unreadable THEN {BackendPath(fullPath(this))} ELSE {}
        IN \E r \in {isEmptyAsync(Denying(Fresh(fs), denied), this)} :
              CalledWith("isEmptyAsync", this, <<>>, FALSE, FALSE, r, r.ret, FALSE, Some(denied))

Next ==
    \/ Delete
    \/ DeleteAsync
    \/ Walk
    \/ WalkAsync
    \/ CopyTo
    \/ CopyToAsync
    \/ RenameTo
    \/ RenameToAsync
    \/ WriteJSON
    \/ WriteJSONAsync
    \/ Save
    \/ SaveAsync
    \/ CreateTempFile
    \/ CreateTempFileAsync
    \/ Clear
    \/ ClearAsync
    \/ TestScript
    \/ IsEmptyAsync

Spec == Init /\ [][Next]_vars

\* ---------------------------------------------------------------- filesystem claims
\* the entry of the tree a handle stands for
Addr(split) == BackendPath(fullPath(split))

\* the immediate children of q in listing order
Kids(tree, q) ==
    LET names == SelectSeq(NameOrder, LAMBDA n : Append(q, n) \in DOMAIN tree)
    IN [i \in 1..Len(names) |-> Append(q, names[i])]

RECURSIVE PreOrder(_, _)
RECURSIVE PreOrderAll(_, _)
\* the entries of the subtree at q, each directory before its contents
PreOrder(tree, q) ==
    IF IsDir(tree, q) THEN <<q>> \o PreOrderAll(tree, Kids(tree, q)) ELSE <<q>>
PreOrderAll(tree, qs) ==
    IF Len(qs) = 0 THEN <<>> ELSE PreOrder(tree, Head(qs)) \o PreOrderAll(tree, Tail(qs))

\* C6: walk() on a directory yields every entry of its tree exactly once in
\* depth-first pre-order, siblings in listing order, and each yielded handle
\* addresses the entry it stands for.
C6_WalkYieldsTreeInPreOrder ==
    (last.op \in {"walk", "walkAsync"} /\ IsDir(last.pre, Addr(last.this))) =>
        [i \in 1..Len(last.out) |-> Addr(last.out[i])] = PreOrder(last.pre, Addr(last.this))

NoNativeRemove ==
    /\ last.op = "delete" => env.members \cap {"rmSync", "rmdirSync"} = {}
    /\ last.op = "deleteAsync" => env.amembers \cap {"rm", "rmdir", "rmSync", "rmdirSync"} = {}

\* the backend paths the unlink calls of a trace were issued for, in order
RECURSIVE UnlinkTargets(_)
UnlinkTargets(tr) ==
    IF Len(tr) = 0 THEN <<>>
    ELSE (IF Head(tr).m = "unlink" THEN <<BackendPath(Head(tr).p)>> ELSE <<>>)
         \o UnlinkTargets(Tail(tr))

\* C7: without a native recursive remove, delete(recursive=true) on a
\* directory issues the removal of every immediate child file in listing
\* order, also after an earlier child failed; every child file the backend
\* does not refuse is gone afterwards, and the result is null if a child is
\* left.
C7_DeleteAttemptsEveryChild ==
    ( /\ last.op \in {"delete", "deleteAsync"}
      /\ last.recursive
      /\ NoNativeRemove
      /\ IsDir(last.pre, Addr(last.this)) ) =>
        LET kids == Kids(last.pre, Addr(last.this))
            files == SelectSeq(kids, LAMBDA q : IsFileAt(last.pre, q))
            isKid(q) == \E i \in 1..Len(files) : files[i] = q
        IN /\ SelectSeq(UnlinkTargets(last.tr), isKid) = files
           /\ \A i \in 1..Len(files) : files[i] \notin env.failing => files[i] \notin DOMAIN fs
           /\ (\E i \in 1..Len(kids) : kids[i] \in DOMAIN fs) => last.out = Null

Removes == {"unlink", "rm", "rmdir"}
Writes == {"writeFile", "mkdir"}

C9_ExistingDestinationUntouched ==
    ( /\ last.op \in {"copyTo", "renameTo", "copyToAsync", "renameToAsync"}
      /\ ~last.overwrite
      /\ fullPath(last.this) # fullPath(last.dest)
      /\ Addr(last.dest) \in DOMAIN last.pre ) =>
        /\ Addr(last.dest) \in DOMAIN fs
        /\ fs[Addr(last.dest)] = last.pre[Addr(last.dest)]

\* C10: FileAsync.copyTo and FileAsync.renameTo issue the backend calls of
\* FileSync.copyTo and FileSync.renameTo on the same tree and succeed exactly
\* when they do.
C10_AsyncMatchesSync ==
    /\ last.op = "copyToAsync" =>
          LET s == copyTo(Fresh(last.pre), last.this, last.dest, last.overwrite,
                          last.recursive, MaxCalls)
          IN s.st.tr = last.tr /\ (s.ret = Null <=> last.out = Null)
    /\ last.op = "renameToAsync" =>
          LET s == renameTo(Fresh(last.pre), last.this, last.dest, last.overwrite,
                            last.recursive)
          IN s.st.tr = last.tr /\ (s.ret = Null <=> last.out = Null)

\* C11: copyTo and renameTo onto a destination with the source's fullPath
\* return the source handle, make no backend call and leave the tree as it
\* was, whatever overwrite and recursive are and whether or not the path
\* exists.
CopyOrRename == {"copyTo", "renameTo", "copyToAsync", "renameToAsync"}

C11_SamePathIsNoOp ==
    (last.op \in CopyOrRename /\ fullPath(last.this) = fullPath(last.dest)) =>
        /\ last.out = Some(last.this)
        /\ last.tr = <<>>
        /\ fs = last.pre

C11_Witness ==
    /\ last.op = "renameTo"
    /\ fullPath(last.this) = fullPath(last.dest)
    /\ ~last.overwrite
    /\ last.recursive
    /\ IsDir(last.pre, Addr(last.this))
    /\ Kids(last.pre, Addr(last.this)) # <<>>
    /\ last.out = Some(last.this)

\* q with its leading `from` replaced by `onto`
Rebase(q, from, onto) == onto \o SubSeq(q, Len(from) + 1, Len(q))

\* the subtree at dest has the names and the contents of the subtree of
\* `tree` at src
SameSubtree(tree, src, after, dest) ==
    /\ \A q \in Under(tree, src) :
          Rebase(q, src, dest) \in DOMAIN after /\ after[Rebase(q, src, dest)] = tree[q]
    /\ \A q \in Under(after, dest) : Rebase(q, dest, src) \in DOMAIN tree

Disjoint(q1, q2) == Under(q1 :> DirEntry, q2) = {} /\ Under(q2 :> DirEntry, q1) = {}

\* the backend paths the existsSync calls of a trace were issued for
RECURSIVE ExistsTargets(_)
ExistsTargets(tr) ==
    IF Len(tr) = 0 THEN <<>>
    ELSE (IF Head(tr).m = "exists" THEN <<BackendPath(Head(tr).p)>> ELSE <<>>)
         \o ExistsTargets(Tail(tr))

\* C12: FileSync.copyTo of a directory onto a destination that is absent or
\* may be overwritten (the two trees apart) makes the destination directory
\* and then starts the copy of every immediate child, in listing order, to
\* the destination entry of its name, also after a child failed; it returns
\* null if the mkdir failed, and when it returns the handle the destination
\* subtree has the names and contents of the source subtree.
C12_DirectoryCopiedChildByChild ==
    ( /\ last.op = "copyTo"
      /\ ~last.ovf
      /\ IsDir(last.pre, Addr(last.this))
      /\ Disjoint(Addr(last.this), Addr(last.dest))
      /\ Addr(last.dest) \notin DOMAIN last.pre \/ last.overwrite ) =>
        LET src == Addr(last.this)
            kids == Kids(last.pre, src)
            isKid(q) == \E i \in 1..Len(kids) : kids[i] = q
        IN /\ Len(last.tr) >= 4
           /\ last.tr[4].m = "mkdir" /\ last.tr[4].p = fullPath(last.dest)
           /\ ~last.tr[4].ok => last.out = Null /\ Len(last.tr) = 4
           /\ last.tr[4].ok =>
                 /\ SelectSeq(ExistsTargets(last.tr), isKid) = kids
                 /\ \A i \in 1..Len(kids) :
                       \E j \in 1..(Len(last.tr) - 1) :
                          /\ last.tr[j].m = "exists" /\ BackendPath(last.tr[j].p) = kids[i]
                          /\ last.tr[j + 1].m = "exists"
                          /\ BackendPath(last.tr[j + 1].p) = Rebase(kids[i], src, Addr(last.dest))
           /\ last.out # Null => SameSubtree(last.pre, src, fs, Addr(last.dest))

\* C13: renameTo with recursive set onto an absent destination issues a
\* recursive mkdir on the destination's parent before the backend rename, so
\* a source that exists is renamed into a directory that did not exist yet.
C13_RenameMakesDestinationParent ==
    ( /\ last.op \in {"renameTo", "renameToAsync"}
      /\ last.recursive
      /\ fullPath(last.this) # fullPath(last.dest)
      /\ Addr(last.this) \in DOMAIN last.pre
      /\ Addr(last.dest) \notin DOMAIN last.pre
      /\ Disjoint(Addr(last.this), Addr(last.dest))
      /\ parent(last.dest) # Null ) =>
        /\ \E i \in 1..Len(last.tr), j \in 1..Len(last.tr) :
              /\ i < j
              /\ last.tr[i].m = "mkdir" /\ last.tr[i].p = fullPath(parent(last.dest)[1])
              /\ last.tr[j].m = "rename"
              /\ last.tr[j].p = fullPath(last.this) /\ last.tr[j].to = fullPath(last.dest)
        /\ last.out = Some(last.this)
        /\ Addr(last.dest) \in DOMAIN fs /\ fs[Addr(last.dest)] = last.pre[Addr(last.this)]

NativeRemoves == {"rm", "rmdir"}

\* the backend of the call provides a recursive remove
HasNativeRemove ==
    \/ last.op = "delete" /\ env.members \cap {"rmSync", "rmdirSync"} # {}
    \/ last.op = "deleteAsync" /\ env.amembers \cap {"rm", "rmdir"} # {}

\* C14: delete(recursive=true) on a backend that provides a recursive remove
\* (rmSync / rmdirSync for FileSync, rm / rmdir for FileAsync) makes exactly
\* one backend call, that remove on the handle's path, and no listing; on a
\* backend that provides none it never calls one.
C14_NativeRemovePreferred ==
    (last.op \in {"delete", "deleteAsync"} /\ last.recursive) =>
        /\ HasNativeRemove =>
              /\ Len(last.tr) = 1
              /\ last.tr[1].m \in NativeRemoves
              /\ last.tr[1].p = fullPath(last.this)
        /\ ~HasNativeRemove => \A i \in 1..Len(last.tr) : last.tr[i].m \notin NativeRemoves

\* the operations that report failure by a sentinel
SentinelOps ==
    {"delete", "deleteAsync", "copyTo", "copyToAsync", "renameTo", "renameToAsync",
     "writeJSON", "writeJSONAsync", "save", "saveAsync",
     "createTempFile", "createTempFileAsync"}

\* C15: a fallible FileSync / FileAsync operation other than stream creation
\* (createTempFile among them) never throws: whatever the backend provides
\* and whatever its members do, the call returns a value.
C15_FailureIsASentinel ==
    last.op \in SentinelOps => ~last.threw

\* the write of the last call went through: the file holds the text
Written ==
    /\ last.data # Null /\ ~last.data[1].cyclic
    /\ \E i \in 1..Len(last.tr) :
          last.tr[i].m = "writeFile" /\ last.tr[i].p = fullPath(last.this) /\ last.tr[i].ok
    /\ IsFileAt(fs, Addr(last.this)) /\ fs[Addr(last.this)].data = last.data[1].text

\* C16: writeJSON returns the handle only when the backend write succeeded
\* and null whenever it failed, and Config.save() returns true only when the
\* file was written and false otherwise.
C16_WriteJSONReportsFailure ==
    /\ last.op \in {"writeJSON", "writeJSONAsync"} =>
          /\ Written => last.out = Some(last.this)
          /\ ~Written => last.out = Null
    /\ last.op \in {"save", "saveAsync"} => last.out = Written

HasTempMember ==
    \/ last.op = "createTempFile" /\ "mkdtempSync" \in env.members
    \/ last.op = "createTempFileAsync" /\ "mkdtemp" \in env.amembers

\* C17: createTempFile throws exactly when the backend lacks its
\* temporary-directory member (mkdtempSync for FileSync, mkdtemp for
\* FileAsync); with the member there and the directory existing it returns a
\* handle.
C17_CreateTempFileThrowsOnlyWithoutMember ==
    (last.op \in {"createTempFile", "createTempFileAsync"} /\ IsDir(last.pre, Addr(last.this))) =>
        /\ HasTempMember => ~last.threw /\ last.out # Null
        /\ ~HasTempMember => last.threw

\* the backend paths the remove calls of a trace were issued for
RemoveTargets(tr) == {BackendPath(tr[i].p) : i \in {j \in 1..Len(tr) : tr[j].m \in Removes}}

\* C21: clear(recursive=true) on a directory attempts the removal of every
\* immediate child, also after an earlier child failed; it returns the
\* handle exactly when no child is left and null otherwise; it never issues
\* a remove on the directory itself, which is still a directory afterwards
\* (with an empty listing after a success); when the listing cannot be
\* obtained it returns null and removes nothing.
C21_ClearEmptiesDirectory ==
    (last.op \in {"clear", "clearAsync"} /\ last.recursive) =>
        LET q == Addr(last.this)
            kids == Kids(last.pre, q)
        IN IF IsDir(last.pre, q)
           THEN /\ \A i \in 1..Len(kids) : kids[i] \in RemoveTargets(last.tr)
                /\ q \notin RemoveTargets(last.tr)
                /\ IsDir(fs, q)
                /\ last.out # Null <=> Kids(fs, q) = <<>>
                /\ last.out # Null => last.out = Some(last.this)
           ELSE /\ last.out = Null
                /\ fs = last.pre
                /\ RemoveTargets(last.tr) = {}

\* C22: clear(recursive=false) issues exactly one backend call, a write to
\* the handle's path, and returns null whether that write succeeded or not;
\* after a successful write the file is empty, after a failed one the tree
\* is unchanged.
C22_ClearFalseReturnsNull ==
    (last.op \in {"clear", "clearAsync"} /\ ~last.recursive) =>
        /\ last.out = Null
        /\ Len(last.tr) = 1
        /\ last.tr[1].m = "writeFile"
        /\ last.tr[1].p = fullPath(last.this)
        /\ last.tr[1].ok => fs = Put(last.pre, Addr(last.this), FileEntry(<<>>))
        /\ ~last.tr[1].ok => fs = last.pre

\* a file that held content is truncated by clear(false), which returns null
C22_Witness ==
    /\ last.op = "clear" /\ ~last.recursive
    /\ last.tr[1].ok
    /\ IsFileAt(last.pre, Addr(last.this)) /\ last.pre[Addr(last.this)].data # <<>>
    /\ last.out = Null

\* C23: after folder.mkdirs() succeeded, write(a) and append(b) on
\* folder.to(name), where name is not a directory, both return the handle,
\* read then returns a followed by b, and isFile is true.
C23_WriteThenAppendReadsBoth ==
    ( /\ last.op = "test"
      /\ last.out.mkdirs # Null
      /\ ~IsDir(last.pre, Append(Addr(last.dest), name(last.this))) ) =>
        /\ last.out.write = Some(last.this)
        /\ last.out.append = Some(last.this)
        /\ last.out.read = Some(last.data[1][1] \o last.data[1][2])
        /\ last.out.isFile = Some(TRUE)

\* C24: FileAsync.isEmpty() is null for an entry that does not exist; for a
\* file it is true exactly when the file holds no data; for a directory the
\* backend lists it is true exactly when the listing is empty, and for a
\* directory the backend refuses to list it is not true.
C24_IsEmptyTellsEmptiness ==
    last.op = "isEmptyAsync" =>
        LET q == Addr(last.this)
        IN /\ q \notin DOMAIN last.pre => last.out = Null
           /\ IsFileAt(last.pre, q) => last.out = Some(last.pre[q].data = <<>>)
           /\ (IsDir(last.pre, q) /\ q \notin last.data[1]) =>
                  last.out = Some(Kids(last.pre, q) = <<>>)
           /\ (IsDir(last.pre, q) /\ q \in last.data[1]) => last.out # Some(TRUE)

\* C26: with separator '/', the string a handle passes to the backend names
\* the handle's own segments whatever the working directory (the backend
\* resolves it to the handle's split), and for a handle built from a rooted
\* string it begins with the separator.
C26_FullPathIsCanonical ==
    (last.op = "new" /\ sep = "/") =>
        /\ BackendPath(fullPath(last.out)) = last.out
        /\ (Len(last.arg) > 0 /\ last.arg[1] = "/") => fullPath(last.out)[1] = "/"

\* C29: a drive-letter-absolute string normalises to a split whose first
\* segment is the two-character drive prefix, however many '..' follow it.
C29_DriveSegmentKept ==
    (last.op = "new" /\ IsDrive(last.arg)) =>
        /\ Len(last.out) >= 1
        /\ last.out[1] = SubSeq(last.arg, 1, 2)

\* C27: without a native recursive remove, delete(recursive=true) on a
\* directory none of whose entries the backend refuses to remove removes
\* the directory and returns the handle; and whenever such a delete returns
\* the handle, nothing is left at or under the path, and every remove of an
\* entry under the path was issued before the remove of the path itself.
C27_RecursiveDeleteRemovesDirectory ==
    ( /\ last.op \in {"delete", "deleteAsync"}
      /\ last.recursive
      /\ NoNativeRemove ) =>
        LET q == Addr(last.this)
            own == {i \in 1..Len(last.tr) :
                       last.tr[i].m \in Removes /\ BackendPath(last.tr[i].p) = q}
            below == {i \in 1..Len(last.tr) :
                       /\ last.tr[i].m \in Removes
                       /\ IsStrictPrefix(q, BackendPath(last.tr[i].p))}
        IN /\ (IsDir(last.pre, q) /\ Under(last.pre, q) \cap env.failing = {}) =>
                  /\ last.out = Some(last.this)
                  /\ Under(fs, q) = {}
           /\ last.out # Null =>
                  /\ Under(fs, q) = {}
                  /\ \A i \in own, j \in below : j < i

\* C28: FileSync.copyTo of a directory onto a destination inside it comes to
\* an end: the nesting of its copyTo calls stays within the depth of the
\* tree, so the model never has to cut the recursion short.
C28_CopyIntoItselfTerminates ==
    ( /\ last.op = "copyTo"
      /\ IsDir(last.pre, Addr(last.this))
      /\ contains(last.this, last.dest) ) => ~last.ovf

\* ---------------------------------------------------------------- walk under concurrent changes
\* FileAsync.walk is an async generator: it suspends at every awaited
\* listFiles().  The walk is a stack of the handles still to visit; between
\* two visits other code creates and deletes entries of the tree.

\* one activation of walk up to its loop: what it yields and the handles
\* its loop will walk
walkVisitAsync(st, this) ==
    IF MethodIsTruthy
    THEN Then(listFilesAsync(st, this),
              LAMBDA l : [st |-> l.st, yields |-> <<this>>, files |-> OrEmpty(l.ret)])
    ELSE [st |-> st, yields |-> <<this>>, files |-> <<>>]

\* the handles walk() is started on
WalkRaws == {RawR, RawT}

WalkInit ==
    \E c \in {<<"/">>, <<"/", "w">>}, script \in Scripts, raw \in WalkRaws :
        /\ cwd = splitPath(c, <<>>)
        /\ sep = "/"
        /\ h = <<>>
        /\ env = [members |-> {}, amembers |-> {}, failing |-> {}]
        /\ fs = Build(Fresh(BareTree), script).fs
        /\ last = [pc |-> "walking", this |-> IFileFromString(raw),
                   stack |-> <<IFileFromString(raw)>>, out |-> <<>>, listed |-> {},
                   mutations |-> 0]
        /\ NothingQueued

WalkFrame == UNCHANGED <<cwd, sep, h, env, ExitVars>>

\* the next activation: yield this, await this.listFiles(), then walk each
\* listed handle before the handles of the callers' loops
WalkVisit ==
    /\ last.pc = "walking"
    /\ last.stack # <<>>
    /\ \E v \in {walkVisitAsync(Fresh(fs), Head(last.stack))},
          l \in {readdirSync(Fresh(fs), fullPath(Head(last.stack)))} :
          last' = [last EXCEPT
                      !.out = @ \o v.yields,
                      !.stack = v.files \o Tail(@),
                      !.listed = @ \cup {listFilesEntry(Head(last.stack), l.val[i]) :
                                            i \in 1..Len(l.val)}]
    /\ UNCHANGED fs
    /\ WalkFrame

\* the outermost generator returns
WalkReturn ==
    /\ last.pc = "walking"
    /\ last.stack = <<>>
    /\ last' = [last EXCEPT !.pc = "done"]
    /\ UNCHANGED fs
    /\ WalkFrame

\* other code creates a file or a directory in a directory of the tree
ConcurrentCreate ==
    /\ last.pc = "walking"
    /\ last.mutations < MaxMutations
    /\ \E q \in DOMAIN fs, n \in {A, B}, e \in {DirEntry, FileEntry(X)} :
        /\ IsDir(fs, q)
        /\ Len(q) > Len(cwd)
        /\ Len(q) < MaxDepth
        /\ Append(q, n) \notin DOMAIN fs
        /\ fs' = Put(fs, Append(q, n), e)
    /\ last' = [last EXCEPT !.mutations = @ + 1]
    /\ WalkFrame

\* other code deletes an entry of the tree and what is under it
ConcurrentDelete ==
    /\ last.pc = "walking"
    /\ last.mutations < MaxMutations
    /\ \E q \in DOMAIN fs :
        /\ Len(q) > Len(cwd)
        /\ fs' = Remove(fs, Under(fs, q))
    /\ last' = [last EXCEPT !.mutations = @ + 1]
    /\ WalkFrame

WalkNext ==
    \/ WalkVisit
    \/ WalkReturn
    \/ ConcurrentCreate
    \/ ConcurrentDelete

\* the consumer keeps iterating and the event loop resumes the generator:
\* weak fairness of the walk's own steps.  One of them is enabled exactly
\* while the walk has not returned, so WF_vars(WalkVisit \/ WalkReturn) is
\* written with that enabling condition
WalkFair == []<>(last.pc # "walking") \/ []<><<WalkVisit \/ WalkReturn>>_vars

WalkSpec == WalkInit /\ [][WalkNext]_vars /\ WalkFair

StreamMembers == {"absent", "throws", "ok"}
\* fetch: throws, answers with a non-2xx status, answers without a body, or
\* answers with a body
Responses == {"throws", "notok", "nobody", "body"}
\* the update callback: not given, returns, or throws
Updates == {"none", "ok", "throws"}

DownloadInit ==
    /\ cwd = <<>> /\ sep = "/" /\ h = <<>> /\ fs = NoFs
    /\ env \in [stream : StreamMembers, response : Responses, chunks : 0..MaxChunks,
                closeThrows : BOOLEAN, writeThrows : BOOLEAN, update : Updates]
    /\ last = [pc |-> "call", opened |-> FALSE, closes |-> 0, received |-> 0, result |-> "none"]
    /\ NothingQueued

DownloadFrame == UNCHANGED <<cwd, sep, h, fs, env, ExitVars>>

\* const stream = this.createWriteStream(), before the try
createWriteStream ==
    /\ last.pc = "call"
    /\ last' = IF env.stream = "ok"
               THEN [last EXCEPT !.pc = "fetch", !.opened = TRUE]
               ELSE [last EXCEPT !.pc = "rejected"]
    /\ DownloadFrame

\* const res = await fetch(...), the status test, update(0, totalBytes) and
\* the body test
DownloadFetch ==
    /\ last.pc = "fetch"
    /\ last' = [last EXCEPT !.pc =
                   IF env.response = "throws" THEN "catch"
                   ELSE IF env.response = "notok" THEN "closeNotOk"
                   ELSE IF env.update = "throws" THEN "catch"
                   ELSE IF env.response = "nobody" THEN "closeNoBody"
                   ELSE "loop"]
    /\ DownloadFrame

\* one round of for await (const chunk of res.body), or its end
DownloadChunk ==
    /\ last.pc = "loop"
    /\ last' = IF last.received = env.chunks THEN [last EXCEPT !.pc = "closeDone"]
               ELSE IF env.writeThrows THEN [last EXCEPT !.pc = "catch"]
               ELSE IF env.update = "throws"
               THEN [last EXCEPT !.pc = "catch", !.received = @ + 1]
               ELSE [last EXCEPT !.received = @ + 1]
    /\ DownloadFrame

\* await stream.close() inside the try, then the return
DownloadClose ==
    /\ last.pc \in {"closeNotOk", "closeNoBody", "closeDone"}
    /\ last' = IF env.closeThrows
               THEN [last EXCEPT !.pc = "catch", !.closes = @ + 1]
               ELSE [last EXCEPT !.pc = "resolved", !.closes = @ + 1,
                                 !.result = IF last.pc = "closeDone" THEN "null" ELSE "Error"]
    /\ DownloadFrame

\* catch (err): await stream.close(); return the error
DownloadCatch ==
    /\ last.pc = "catch"
    /\ last' = IF env.closeThrows
               THEN [last EXCEPT !.pc = "rejected", !.closes = @ + 1]
               ELSE [last EXCEPT !.pc = "resolved", !.closes = @ + 1, !.result = "Error"]
    /\ DownloadFrame

DownloadNext ==
    \/ createWriteStream
    \/ DownloadFetch
    \/ DownloadChunk
    \/ DownloadClose
    \/ DownloadCatch

DownloadSpec == DownloadInit /\ [][DownloadNext]_vars

\* the request ran to its end: a 2xx answer with a body, read whole
Succeeded ==
    env.response = "body" /\ env.update # "throws" /\ last.received = env.chunks
    /\ (env.chunks > 0 => ~env.writeThrows)

\* C18: download() never rejects, whatever the backend and the request do:
\* the promise resolves to null on success and to an Error otherwise, and a
\* stream that was opened has been closed when download returns.
C18_DownloadNeverRejects ==
    /\ last.pc # "rejected"
    /\ last.pc = "resolved" =>
          /\ last.result = (IF Succeeded THEN "null" ELSE "Error")
          /\ last.opened => last.closes >= 1

\* ---------------------------------------------------------------- deletion at exit
\* Utils: deleteQueue, addLast, cleanup, sigint, sigterm, attachCleanup, and
\* deleteOnExit of FileSync / FileAsync, in a node process.  A listener is
\* named by its function: "cleanup", "sigint", "sigterm", or "other" for a
\* listener of other code.

\* the library's listener of an event
Handler(event) ==
    IF event = "exit" THEN "cleanup" ELSE IF event = "SIGINT" THEN "sigint" ELSE "sigterm"

Count(ls, listener) == Len(SelectSeq(ls, LAMBDA l : l = listener))

\* A registration is the listener's name; "otherOnce" is the wrapper
\* process.once makes around the listener "other".
\* base.listeners(event): a copy of the registered functions, the once
\* wrappers replaced by the functions they wrap
listenersOf(ls) == [i \in 1..Len(ls) |-> IF ls[i] = "otherOnce" THEN "other" ELSE ls[i]]

\* the registrations left after the event was emitted: once wrappers
\* remove themselves
emitted(ls) == SelectSeq(ls, LAMBDA l : l # "otherOnce")

\* the mutant of addLast: registers without removing the earlier registration
addLastKeepsEarlier(ls, listener) == Append(ls, listener)

\* addLast(base, event, listener), on the listeners of the event:
\* removeAllListeners, then on(event, l) for each l of base.listeners(event)
\* but the given one, then on(event, listener)
addLast(ls, listener) ==
    Append(SelectSeq(listenersOf(ls), LAMBDA l : l # listener), listener)

\* process.off(event, listener): removes the instance added last, if any
off(ls, listener) ==
    IF Count(ls, listener) = 0 THEN ls
    ELSE LET i == CHOOSE k \in 1..Len(ls) :
                     ls[k] = listener /\ \A j \in (k + 1)..Len(ls) : ls[j] # listener
         IN SubSeq(ls, 1, i - 1) \o SubSeq(ls, i + 1, Len(ls))

attachCleanup(ls) == [e \in Events |-> addLast(ls[e], Handler(e))]

\* deleteQueue.set(file, recursive): a Map keeps the place of a key it has
MapSet(queue, file, recursive) ==
    IF \E i \in 1..Len(queue) : queue[i].file = file
    THEN [i \in 1..Len(queue) |->
             IF queue[i].file = file THEN [file |-> file, recursive |-> recursive] ELSE queue[i]]
    ELSE Append(queue, [file |-> file, recursive |-> recursive])

RECURSIVE cleanupEach(_, _)
\* cleanup: for (const [file, recursive] of deleteQueue.entries())
\*              new FileSync(file).delete(recursive)
cleanupEach(st, queue) ==
    IF Len(queue) = 0 THEN st
    ELSE Then(delete(st, IFileFromString(Head(queue).file), Head(queue).recursive),
              LAMBDA d : cleanupEach(d.st, Tail(queue)))

\* cleanup() on x = [queue, ls, st, attached]
cleanup(x) ==
    Then(cleanupEach(x.st, x.queue), LAMBDA st :
        [x EXCEPT !.queue = <<>>,
                  !.ls = [e \in Events |-> off(x.ls[e], Handler(e))],
                  !.st = st,
                  !.attached = FALSE])

RECURSIVE emitExit(_, _)
\* process.emit('exit') over the listeners registered when it started
emitExit(x, snapshot) ==
    IF Len(snapshot) = 0 THEN x
    ELSE Then(IF Head(snapshot) = "cleanup" THEN cleanup(x) ELSE x,
              LAMBDA y : emitExit(y, Tail(snapshot)))

\* sigint / sigterm: cleanup(); process.exit(code), which emits 'exit'
sigint(x) == Then(cleanup(x), LAMBDA y : emitExit(y, y.ls["exit"]))

Now == [queue |-> deleteQueue, ls |-> listeners, attached |-> proc.attached,
        cleanups |-> proc.cleanups,
        st |-> [Fresh(fs) EXCEPT !.tr = proc.tr]]

\* the state after x, the process running on or not
Becomes(x, status) ==
    /\ deleteQueue' = x.queue
    /\ listeners' = x.ls
    /\ fs' = x.st.fs
    /\ proc' = [status |-> status, tr |-> x.st.tr, attached |-> x.attached,
                cleanups |-> x.cleanups]
    /\ UNCHANGED <<cwd, sep, h, last, env>>

\* the paths handles are queued for
QueueRaws == {RawR, RawTA}

ExitInit ==
    \E c \in {<<"/">>, <<"/", "w">>} :
        /\ cwd = splitPath(c, <<>>)
        /\ sep = "/"
        /\ h = <<>>
        /\ env = [members |-> {"rmSync", "rmdirSync", "mkdtempSync"},
                  amembers |-> {"rm", "rmdir", "mkdtemp"}, failing |-> {}]
        /\ fs \in {Build(Fresh(BareTree), script).fs : script \in {sc \in Scripts : Len(sc) > 4}}
        /\ last = [op |-> "exit"]
        /\ NothingQueued

\* FileSync.deleteOnExit / FileAsync.deleteOnExit
DeleteOnExit ==
    /\ proc.status = "running"
    /\ \E raw \in QueueRaws, recursive \in BOOLEAN :
        LET file == fullPath(IFileFromString(raw))
        IN /\ (\E i \in 1..Len(deleteQueue) : deleteQueue[i].file = file)
                \/ Len(deleteQueue) < MaxQueued
           /\ Becomes([Now EXCEPT !.queue = MapSet(deleteQueue, file, recursive),
                                  !.ls = attachCleanup(listeners),
                                  !.attached = TRUE], "running")

AttachCleanup ==
    /\ proc.status = "running"
    /\ Becomes([Now EXCEPT !.ls = attachCleanup(listeners), !.attached = TRUE], "running")

\* the events other code listens to
OtherEvents == {"exit", "SIGINT"}

\* other code: process.on(event, listener) or process.once(event, listener)
ProcessOn ==
    /\ proc.status = "running"
    /\ Len(SelectSeq(listeners["exit"] \o listeners["SIGINT"] \o listeners["SIGTERM"],
                     LAMBDA l : l \in {"other", "otherOnce"})) < MaxOthers
    /\ \E e \in OtherEvents, registration \in {"other", "otherOnce"} :
        Becomes([Now EXCEPT !.ls[e] = Append(@, registration)], "running")

\* a call of the exported cleanup()
Cleanup ==
    /\ proc.status = "running"
    /\ proc.cleanups < MaxCleanups
    /\ \E x \in {cleanup(Now)} : Becomes([x EXCEPT !.cleanups = @ + 1], "running")

\* SIGINT or SIGTERM arrives: with the library's listener registered it runs
\* and exits the process; with other listeners alone the process goes on;
\* with none the signal's default ends the process without 'exit'
Signal ==
    /\ proc.status = "running"
    /\ \E e \in {"SIGINT", "SIGTERM"} :
        IF Count(listeners[e], Handler(e)) > 0
        THEN \E x \in {sigint(Now)} : Becomes(x, "exited")
        ELSE IF Len(listeners[e]) > 0
        THEN Becomes([Now EXCEPT !.ls[e] = emitted(@)], "running")
        ELSE Becomes(Now, "killed")

\* the process ends: 'exit' is emitted
Exit ==
    /\ proc.status = "running"
    /\ \E x \in {emitExit(Now, listeners["exit"])} : Becomes(x, "exited")

ExitNext ==
    \/ DeleteOnExit
    \/ AttachCleanup
    \/ ProcessOn
    \/ Cleanup
    \/ Signal
    \/ Exit

ExitSpec == ExitInit /\ [][ExitNext]_vars

\* the calls one delete attempt per queued entry makes on a backend with
\* rmSync, as [m, p]
Attempts(queue) ==
    [i \in 1..Len(queue) |->
        [m |-> IF queue[i].recursive THEN "rm" ELSE "unlink", p |-> queue[i].file]]

CallsOf(tr) == [i \in 1..Len(tr) |-> [m |-> tr[i].m, p |-> tr[i].p]]

\* C19: a step of the process makes no backend call, or it makes exactly one
\* delete attempt for every queued path, with its recorded flag, and empties
\* the queue; the step that ends the process through 'exit' or a handled
\* signal is of the second kind and leaves none of the library's listeners,
\* and once the queue is flushed no later step deletes again.
C19_QueueFlushedOnce ==
    [][ /\ \/ proc'.tr = proc.tr
           \/ /\ CallsOf(proc'.tr) = CallsOf(proc.tr) \o Attempts(deleteQueue)
              /\ deleteQueue' = <<>>
        /\ (proc.status = "running" /\ proc'.status = "exited") =>
              /\ CallsOf(proc'.tr) = CallsOf(proc.tr) \o Attempts(deleteQueue)
              /\ deleteQueue' = <<>>
              /\ \A e \in Events : Count(listeners'[e], Handler(e)) = 0
      ]_vars

\* C20: every event carries at most one registration of the library's
\* listener, and exactly one while something was registered since the last
\* flush: after deleteOnExit or attachCleanup, and whenever the queue is not
\* empty.
C20_OneListenerPerEvent ==
    \A e \in Events :
        /\ Count(listeners[e], Handler(e)) <= 1
        /\ (proc.attached \/ deleteQueue # <<>>) => Count(listeners[e], Handler(e)) = 1

C20_Witness ==
    /\ Len(deleteQueue) = 2
    /\ proc.tr # <<>>
    /\ listeners["exit"] = <<"other", "cleanup">>
    /\ listeners["SIGINT"] = <<"sigint">>
    /\ listeners["SIGTERM"] = <<"sigterm">>

\* the registrations of an event other than the library's own
OtherListeners(ls, e) == SelectSeq(ls[e], LAMBDA l : l # Handler(e))

\* C30: a step that is a call of attachCleanup (alone or from deleteOnExit)
\* leaves, for every event, the registrations of other code as they were,
\* in number, order and kind, and the library's listener as the last entry.
C30_OtherListenersKept ==
    [][ (AttachCleanup \/ DeleteOnExit) =>
            \A e \in Events :
                /\ OtherListeners(listeners', e) = OtherListeners(listeners, e)
                /\ listeners'[e] = Append(OtherListeners(listeners, e), Handler(e))
      ]_vars

====
